---------------------------- MODULE Spec2Model ----------------------------
(***************************************************************************)
(* Model of the conversation-analyzer engine:                              *)
(*   vad.py   : detect_speech, _auto_threshold, _frames_to_segments        *)
(*   stats.py : compute_stats and its helpers _build_turns,                *)
(*              _compute_response_times, _detect_interruptions             *)
(*                                                                         *)
(* Times of the statistics engine are integer ticks (the code holds them   *)
(* as float seconds and only compares, subtracts and takes max of them).   *)
(* Times of the segmenter are integer milliseconds: the code returns       *)
(* frame_index * frame_ms / 1000.0 seconds.                                *)
(***************************************************************************)
EXTENDS Integers, Sequences, FiniteSets

VARIABLES
    \* ---- vad.py: one call of detect_speech ----
    vad_pc,           \* position inside detect_speech
    sample_rate,      \* argument sample_rate (Hz)
    signal_len,       \* len(signal), in samples
    rms,              \* the RMS energy of each whole frame of the signal (levels)
    threshold,        \* argument threshold: <<level>>, or <<>> for None (auto)
    frame_ms,         \* argument frame_ms
    min_speech_ms,    \* argument min_speech_ms
    min_silence_ms,   \* argument min_silence_ms
    is_speech,        \* local is_speech : one boolean per frame
    speech,           \* the returned list; start_sec and end_sec held in milliseconds
    \* ---- stats.py: one call of compute_stats ----
    pc,               \* position inside compute_stats
    segments_a,       \* argument segments_a : sequence of [start_sec, end_sec]
    segments_b,       \* argument segments_b
    talk_a,           \* speaker_a.total_talk_time
    talk_b,           \* speaker_b.total_talk_time
    turns,            \* local turns : sequence of [speaker, start, end]
    response_a,       \* speaker_a.response_times
    response_b,       \* speaker_b.response_times
    interruptions,    \* local interruptions : sequence of Interruption records
    made_a,           \* speaker_a.interruptions_made
    made_b,           \* speaker_b.interruptions_made
    yield_a,          \* speaker_a.yielding_latencies
    yield_b,          \* speaker_b.yielding_latencies
    num_turns_a,      \* speaker_a.num_turns
    num_turns_b,      \* speaker_b.num_turns
    turn_durations_a, \* speaker_a.turn_durations
    turn_durations_b, \* speaker_b.turn_durations
    duration,         \* argument duration_sec (0 until the call reads it)
    total_overlap_sec,\* ConversationStats.total_overlap_sec
    silence_info,     \* the dict returned by _compute_silence
    percentages       \* talk_time_pct of both speakers, overlap_pct, silence_pct

\* written by lines 142-145
turn_stat_vars == <<num_turns_a, num_turns_b, turn_durations_a, turn_durations_b>>

\* written by the lines that read duration_sec
summary_vars == <<duration, total_overlap_sec, silence_info, percentages>>

stats_vars == <<pc, segments_a, segments_b, talk_a, talk_b, turns, response_a,
                response_b, interruptions, made_a, made_b, yield_a, yield_b,
                turn_stat_vars, summary_vars>>

vad_vars == <<vad_pc, sample_rate, signal_len, rms, threshold, frame_ms,
              min_speech_ms, min_silence_ms, is_speech, speech>>

vars == <<vad_vars, stats_vars>>

-----------------------------------------------------------------------------
(* Bounds of the model *)

\* largest time stamp (ticks) of an interval handed to compute_stats
MaxTime == 3
\* largest total number of intervals (both speakers together)
MaxSegs == 3
\* largest len(signal) handed to detect_speech, in samples
MaxSignalLen == 12
\* largest frame energy level
MaxEnergy == 2

-----------------------------------------------------------------------------
(* Generic helpers *)

Max(a, b) == IF a >= b THEN a ELSE b

Min(a, b) == IF a <= b THEN a ELSE b

\* the float n / d, kept exact; den = 0 is a division by zero (an error or nan)
Quotient(n, d) == [num |-> n, den |-> d]

\* the float 0.0
Zero == Quotient(0, 1)

RECURSIVE SumSeq(_)
SumSeq(s) == IF s = <<>> THEN 0 ELSE Head(s) + SumSeq(Tail(s))

-----------------------------------------------------------------------------
(* stats.py data *)

label_a == "A"
label_b == "B"

\* vad.SpeechSegment(start_sec, end_sec)
SpeechSegment(s, e) == [start_sec |-> s, end_sec |-> e]

\* SpeechSegment.duration_sec
duration_sec(seg) == seg.end_sec - seg.start_sec

\* stats.Turn(speaker, start, end)
Turn(sp, s, e) == [speaker |-> sp, start |-> s, end |-> e]

\* stats.Interruption(interrupter, interrupted, start_time, yielding_latency)
Interruption(x, y, s, l) ==
    [interrupter |-> x, interrupted |-> y, start_time |-> s, yielding_latency |-> l]

\* the intervals a caller can pass: end >= start (spec section 3), inside 0..MaxTime
Intervals ==
    {iv \in [start_sec : 0..MaxTime, end_sec : 0..MaxTime] : iv.end_sec >= iv.start_sec}


-----------------------------------------------------------------------------
(* list.sort(key=...): a stable sort.  keys[i] is the key of seq[i].          *)

RECURSIVE SortedIndices(_, _)
SortedIndices(keys, n) ==
    IF n = 0 THEN <<>>
    ELSE LET prev == SortedIndices(keys, n - 1)
             k    == Cardinality({j \in DOMAIN prev : keys[prev[j]] <= keys[n]})
         IN  SubSeq(prev, 1, k) \o <<n>> \o SubSeq(prev, k + 1, Len(prev))

StableSort(seq, keys) ==
    LET idx == SortedIndices(keys, Len(seq))
    IN  [i \in DOMAIN seq |-> seq[idx[i]]]

-----------------------------------------------------------------------------
(* vad.detect_speech and its helpers *)

\* the configurations explored (the defaults 30 / 200 / 300 ms need signals of
\* more frames than the model holds; min_speech_ms and min_silence_ms include
\* values that are no multiple of frame_ms)
SampleRates == {-100, -30, 30, 100, 150}
FrameSizes == {20, 30}
MinSpeechChoices == {0, 50, 60}
MinSilenceChoices == {0, 50, 70}
EnergyLevels == 0..MaxEnergy
Thresholds == {<<>>} \cup {<<level>> : level \in EnergyLevels}

\* int(a / b) for b > 0: the quotient rounded toward zero
int_of_quotient(a, b) == IF a >= 0 THEN a \div b ELSE -((-a) \div b)

\* a // b for a >= 0, b # 0: the quotient rounded down
floor_div(a, b) == IF b > 0 THEN a \div b ELSE -((a + (-b) - 1) \div (-b))

\* line 41: int(sample_rate * frame_ms / 1000)
frame_samples_of(sr, fms) == int_of_quotient(sr * fms, 1000)

\* line 46: len(signal) // frame_samples (0 frames when the early return is taken)
n_frames_of(len, fs) == IF fs = 0 THEN 0 ELSE floor_div(len, fs)

\* np.percentile(rms, q), linear interpolation, times 100 (q in {30, 95}, n >= 1):
\* virtual index h = q (n-1) / 100, value v[floor h] + frac(h) (v[floor h + 1] - v[floor h])
percentile_x100(values, q) ==
    LET v == StableSort(values, values)
        n == Len(v)
        h == q * (n - 1)
        i == (h \div 100) + 1
    IN  IF h % 100 = 0 THEN 100 * v[i]
        ELSE 100 * v[i] + (h % 100) * (v[i + 1] - v[i])

\* _auto_threshold, times 1000
_auto_threshold(values) ==
    IF Len(values) = 0 THEN 0
    ELSE LET noise_floor == percentile_x100(values, 30)
             peak        == percentile_x100(values, 95)
         IN  IF peak <= noise_floor THEN 10 * noise_floor
             ELSE 10 * noise_floor + 4 * (peak - noise_floor)

\* lines 54-55: the threshold in force, times 1000
threshold_x1000(values, thr) ==
    IF thr = <<>> THEN _auto_threshold(values) ELSE 1000 * thr[1]

\* line 58 with >= in place of >
classify_at_or_above(values, thr) ==
    [i \in DOMAIN values |-> 1000 * values[i] >= threshold_x1000(values, thr)]

\* line 58: is_speech = rms > threshold
classify(values, thr) ==
    [i \in DOMAIN values |-> 1000 * values[i] > threshold_x1000(values, thr)]

\* lines 104-117: run-length encoding; st = [segments, in_segment, start] after
\* the frames 1..n (frame i of the model is index i-1 of the code)
RECURSIVE encode_runs(_, _)
encode_runs(flags, n) ==
    IF n = 0 THEN [segments |-> <<>>, in_segment |-> FALSE, start |-> 0]
    ELSE LET st == encode_runs(flags, n - 1)
             i  == n - 1
         IN  IF flags[n] /\ ~st.in_segment
             THEN [st EXCEPT !.start = i, !.in_segment = TRUE]
             ELSE IF ~flags[n] /\ st.in_segment
                  THEN [st EXCEPT !.segments = Append(@, <<st.start, i>>),
                                  !.in_segment = FALSE]
                  ELSE st

speech_runs(flags) ==
    LET st == encode_runs(flags, Len(flags))
    IN  IF st.in_segment THEN Append(st.segments, <<st.start, Len(flags)>>)
        ELSE st.segments

\* mutant: a close run is appended as a widened copy instead of replacing merged[-1]
merge_step_appends(merged, seg, min_silence_frames) ==
    LET prev == merged[Len(merged)]
    IN  IF seg[1] - prev[2] < min_silence_frames
        THEN Append(merged, <<prev[1], seg[2]>>)
        ELSE Append(merged, seg)

\* lines 125-129: one iteration of the merge
merge_step(merged, seg, min_silence_frames) ==
    LET prev == merged[Len(merged)]
    IN  IF seg[1] - prev[2] < min_silence_frames
        THEN [merged EXCEPT ![Len(merged)] = <<prev[1], seg[2]>>]
        ELSE Append(merged, seg)

\* lines 123-129: merged after the first n runs (n >= 1)
RECURSIVE merge_runs(_, _, _)
merge_runs(segments, n, min_silence_frames) ==
    IF n = 1 THEN <<segments[1]>>
    ELSE merge_step(merge_runs(segments, n - 1, min_silence_frames),
                    segments[n], min_silence_frames)

\* line 132
long_enough(seg, min_speech_frames) == seg[2] - seg[1] >= min_speech_frames

\* lines 122-132 in the other order: short runs are dropped, then the rest merged
_frames_to_segments_filter_first(flags, min_silence_frames, min_speech_frames) ==
    IF Len(flags) = 0 THEN <<>>
    ELSE LET kept == SelectSeq(speech_runs(flags),
                               LAMBDA seg : long_enough(seg, min_speech_frames))
         IN  IF kept = <<>> THEN <<>>
             ELSE merge_runs(kept, Len(kept), min_silence_frames)

_frames_to_segments(flags, min_silence_frames, min_speech_frames) ==
    IF Len(flags) = 0 THEN <<>>
    ELSE LET segments == speech_runs(flags)
         IN  IF segments = <<>> THEN <<>>
             ELSE SelectSeq(merge_runs(segments, Len(segments), min_silence_frames),
                            LAMBDA seg : long_enough(seg, min_speech_frames))

\* lines 61-62: int(min_..._ms / frame_ms), operands >= 0, frame_ms > 0
ms_to_frames(ms, fms) == ms \div fms

\* lines 67-73: frame indices to seconds, held as milliseconds
\* (start_sec = start * frame_ms / 1000.0)
to_seconds(segments, fms) ==
    [i \in DOMAIN segments |->
        SpeechSegment(segments[i][1] * fms, segments[i][2] * fms)]

-----------------------------------------------------------------------------
(* stats._build_turns *)

\* lines 192-196: the pooled (start, end, speaker) events, A's first
pooled_events(sa, sb, la, lb) ==
    [i \in DOMAIN sa |-> <<sa[i].start_sec, sa[i].end_sec, la>>] \o
    [i \in DOMAIN sb |-> <<sb[i].start_sec, sb[i].end_sec, lb>>]

\* mutant: the sort of line 198 left out
sorted_events_unsorted(sa, sb, la, lb) == pooled_events(sa, sb, la, lb)

\* line 198: events.sort(key=lambda e: e[0])
sorted_events(sa, sb, la, lb) ==
    LET events == pooled_events(sa, sb, la, lb)
    IN  StableSort(events, [i \in DOMAIN events |-> events[i][1]])

\* mutant: every interval opens a turn of its own
turn_step_never_merges(ts, ev) == Append(ts, Turn(ev[3], ev[1], ev[2]))

\* mutant: an extended turn takes the end of the latest interval (no max)
turn_step_last_end(ts, ev) ==
    IF ts # <<>> /\ ts[Len(ts)].speaker = ev[3]
    THEN [ts EXCEPT ![Len(ts)] = Turn(ev[3], ts[Len(ts)].start, ev[2])]
    ELSE Append(ts, Turn(ev[3], ev[1], ev[2]))

\* lines 202-206: one iteration of the fold
turn_step(ts, ev) ==
    IF ts # <<>> /\ ts[Len(ts)].speaker = ev[3]
    THEN [ts EXCEPT ![Len(ts)] =
             Turn(ev[3], ts[Len(ts)].start, Max(ts[Len(ts)].end, ev[2]))]
    ELSE Append(ts, Turn(ev[3], ev[1], ev[2]))

\* lines 200-206: the turns after the first n events
RECURSIVE fold_turns(_, _)
fold_turns(events, n) ==
    IF n = 0 THEN <<>> ELSE turn_step(fold_turns(events, n - 1), events[n])

_build_turns(sa, sb, la, lb) ==
    LET events == sorted_events(sa, sb, la, lb)
    IN  fold_turns(events, Len(events))

-----------------------------------------------------------------------------
(* stats._compute_response_times *)

\* mutant: the gap is measured from the start of the previous turn
response_step_gap_from_prev_start(rt, prev, curr, la) ==
    IF prev.speaker = curr.speaker THEN rt
    ELSE LET gap == curr.start - prev.start
         IN  IF gap <= 0 THEN rt
             ELSE IF curr.speaker = la
                  THEN [rt EXCEPT !.a = Append(@, gap)]
                  ELSE [rt EXCEPT !.b = Append(@, gap)]

\* mutant: only negative gaps are skipped (gap < 0), a touching pair gives a sample
response_step_counts_zero_gap(rt, prev, curr, la) ==
    IF prev.speaker = curr.speaker THEN rt
    ELSE LET gap == curr.start - prev.end
         IN  IF gap < 0 THEN rt
             ELSE IF curr.speaker = la
                  THEN [rt EXCEPT !.a = Append(@, gap)]
                  ELSE [rt EXCEPT !.b = Append(@, gap)]

\* lines 225-235: one iteration; rt = [a |-> ..., b |-> ...] are the two lists
response_step(rt, prev, curr, la) ==
    IF prev.speaker = curr.speaker THEN rt
    ELSE LET gap == curr.start - prev.end
         IN  IF gap <= 0 THEN rt
             ELSE IF curr.speaker = la
                  THEN [rt EXCEPT !.a = Append(@, gap)]
                  ELSE [rt EXCEPT !.b = Append(@, gap)]

\* lines 224-235: the lists after the iterations i = 1 .. n-1 (turns[1..n], 1-based)
RECURSIVE fold_response(_, _, _)
fold_response(ts, n, la) ==
    IF n <= 1 THEN [a |-> <<>>, b |-> <<>>]
    ELSE response_step(fold_response(ts, n - 1, la), ts[n - 1], ts[n], la)

_compute_response_times(ts, la, lb) == fold_response(ts, Len(ts), la)

-----------------------------------------------------------------------------
(* stats._detect_interruptions *)

\* mutant: a start at the same instant counts (>= instead of >)
starts_inside_or_at_start(x, y) ==
    x.start_sec >= y.start_sec /\ x.start_sec < y.end_sec

\* lines 250 / 263: the interrupter's interval x starts strictly inside y
starts_inside(x, y) == x.start_sec > y.start_sec /\ x.start_sec < y.end_sec

\* mutant: no break, the last matching interval wins
last_match(x, ys) ==
    LET hits == {j \in DOMAIN ys : starts_inside(x, ys[j])}
    IN  IF hits = {} THEN 0 ELSE CHOOSE j \in hits : \A k \in hits : j >= k

\* inner loop with its break: index of the first interval of ys that x starts in, or 0
first_match(x, ys) ==
    LET hits == {j \in DOMAIN ys : starts_inside(x, ys[j])}
    IN  IF hits = {} THEN 0 ELSE CHOOSE j \in hits : \A k \in hits : j <= k

\* mutant: the latency subtraction the wrong way round
RECURSIVE scan_interrupters_latency_reversed(_, _, _, _, _)
scan_interrupters_latency_reversed(xs, ys, lx, ly, n) ==
    IF n = 0 THEN <<>>
    ELSE LET rest == scan_interrupters_latency_reversed(xs, ys, lx, ly, n - 1)
             hits == {j \in DOMAIN ys : starts_inside(xs[n], ys[j])}
             j    == IF hits = {} THEN 0 ELSE CHOOSE j \in hits : \A k \in hits : j <= k
         IN  IF j = 0 THEN rest
             ELSE Append(rest, Interruption(lx, ly, xs[n].start_sec,
                                            xs[n].start_sec - ys[j].end_sec))

\* one outer loop (lines 248-258 or 261-271) over the first n intervals of xs
RECURSIVE scan_interrupters(_, _, _, _, _)
scan_interrupters(xs, ys, lx, ly, n) ==
    IF n = 0 THEN <<>>
    ELSE LET rest == scan_interrupters(xs, ys, lx, ly, n - 1)
             j    == first_match(xs[n], ys)
         IN  IF j = 0 THEN rest
             ELSE Append(rest, Interruption(lx, ly, xs[n].start_sec,
                                            ys[j].end_sec - xs[n].start_sec))

\* mutant: only the first loop (B interrupting A) is run
_detect_interruptions_first_loop_only(sa, sb, la, lb) ==
    LET found == scan_interrupters(sb, sa, lb, la, Len(sb))
    IN  StableSort(found, [i \in DOMAIN found |-> found[i].start_time])

\* mutant: the second loop keeps the labels of the first
_detect_interruptions_labels_not_swapped(sa, sb, la, lb) ==
    LET found == scan_interrupters(sb, sa, lb, la, Len(sb)) \o
                 scan_interrupters(sa, sb, lb, la, Len(sa))
    IN  StableSort(found, [i \in DOMAIN found |-> found[i].start_time])

_detect_interruptions(sa, sb, la, lb) ==
    LET found == scan_interrupters(sb, sa, lb, la, Len(sb)) \o
                 scan_interrupters(sa, sb, la, lb, Len(sa))
    IN  StableSort(found, [i \in DOMAIN found |-> found[i].start_time])

-----------------------------------------------------------------------------
(* stats.compute_stats, lines 152-160: per-speaker interruption tallies *)

made_by(intrs, label) ==
    Cardinality({i \in DOMAIN intrs : intrs[i].interrupter = label})

\* yielding latencies appended to the speaker who is NOT the interrupter
RECURSIVE latencies_against(_, _, _)
latencies_against(intrs, interrupter_is_a, n) ==
    IF n = 0 THEN <<>>
    ELSE LET rest == latencies_against(intrs, interrupter_is_a, n - 1)
             is_a == intrs[n].interrupter = label_a
         IN  IF is_a = interrupter_is_a
             THEN Append(rest, intrs[n].yielding_latency) ELSE rest

-----------------------------------------------------------------------------
(* stats.compute_stats, lines 142-145: per-speaker turn tallies *)

RECURSIVE turn_durations_of(_, _, _)
turn_durations_of(ts, label, n) ==
    IF n = 0 THEN <<>>
    ELSE LET rest == turn_durations_of(ts, label, n - 1)
         IN  IF ts[n].speaker = label
             THEN Append(rest, ts[n].end - ts[n].start) ELSE rest

num_turns_of(ts, label) == Cardinality({i \in DOMAIN ts : ts[i].speaker = label})

-----------------------------------------------------------------------------
(* stats._compute_overlap *)

\* lines 285-288 without the test of line 287: negative intersections are added
pair_overlap_unguarded(x, y) ==
    Min(x.end_sec, y.end_sec) - Max(x.start_sec, y.start_sec)

\* lines 285-288: what one pair adds to total
pair_overlap(x, y) ==
    LET overlap_start == Max(x.start_sec, y.start_sec)
        overlap_end   == Min(x.end_sec, y.end_sec)
    IN  IF overlap_end > overlap_start THEN overlap_end - overlap_start ELSE 0

_compute_overlap(sa, sb) ==
    SumSeq([i \in DOMAIN sa |->
               SumSeq([j \in DOMAIN sb |-> pair_overlap(sa[i], sb[j])])])

-----------------------------------------------------------------------------
(* stats._compute_silence *)

\* lines 299-302: both lists as (start, end) tuples, sorted as tuples
all_intervals(sa, sb) ==
    LET pooled == [i \in DOMAIN sa |-> <<sa[i].start_sec, sa[i].end_sec>>] \o
                  [i \in DOMAIN sb |-> <<sb[i].start_sec, sb[i].end_sec>>]
        by_end == StableSort(pooled, [i \in DOMAIN pooled |-> pooled[i][2]])
    IN  StableSort(by_end, [i \in DOMAIN by_end |-> by_end[i][1]])

\* lines 311-315 with the max of line 313 left out: the later interval's end wins
silence_merge_step_last_end(merged, iv) ==
    LET prev == merged[Len(merged)]
    IN  IF iv[1] <= prev[2]
        THEN [merged EXCEPT ![Len(merged)] = <<prev[1], iv[2]>>]
        ELSE Append(merged, iv)

\* lines 311-315: one iteration of the merge
silence_merge_step(merged, iv) ==
    LET prev == merged[Len(merged)]
    IN  IF iv[1] <= prev[2]
        THEN [merged EXCEPT ![Len(merged)] = <<prev[1], Max(prev[2], iv[2])>>]
        ELSE Append(merged, iv)

\* lines 309-315: merged after the first n intervals (n >= 1)
RECURSIVE merge_intervals(_, _)
merge_intervals(ivs, n) ==
    IF n = 1 THEN <<ivs[1]>>
    ELSE silence_merge_step(merge_intervals(ivs, n - 1), ivs[n])

\* lines 321-324: the positive gaps between the first n merged intervals
RECURSIVE inner_gaps(_, _)
inner_gaps(merged, n) ==
    IF n <= 1 THEN <<>>
    ELSE LET rest == inner_gaps(merged, n - 1)
             gap  == merged[n][1] - merged[n - 1][2]
         IN  IF gap > 0 THEN Append(rest, gap) ELSE rest

\* lines 318-326 with the test of lines 319-320 left out: no pause before the
\* first interval
pauses_of_no_leading_gap(merged, dur) ==
    inner_gaps(merged, Len(merged)) \o
    (IF merged[Len(merged)][2] < dur
     THEN <<dur - merged[Len(merged)][2]>> ELSE <<>>)

\* lines 318-326: the list pauses
pauses_of(merged, dur) ==
    (IF merged[1][1] > 0 THEN <<merged[1][1]>> ELSE <<>>) \o
    inner_gaps(merged, Len(merged)) \o
    (IF merged[Len(merged)][2] < dur
     THEN <<dur - merged[Len(merged)][2]>> ELSE <<>>)

RECURSIVE MaxOfSeq(_)
MaxOfSeq(s) == IF Len(s) = 1 THEN s[1] ELSE Max(Head(s), MaxOfSeq(Tail(s)))

RECURSIVE MinOfSeq(_)
MinOfSeq(s) == IF Len(s) = 1 THEN s[1] ELSE Min(Head(s), MinOfSeq(Tail(s)))

\* lines 299-315: the list merged; empty exactly when all_intervals is empty
merged_intervals(sa, sb) ==
    LET ivs == all_intervals(sa, sb)
    IN  IF ivs = <<>> THEN <<>> ELSE merge_intervals(ivs, Len(ivs))

\* lines 304-306 and 317-334: the returned dict, from merged and duration_sec
silence_summary(merged, dur) ==
    IF merged = <<>>
    THEN [total |-> dur, count |-> IF dur > 0 THEN 1 ELSE 0,
          avg |-> Quotient(dur, 1), longest |-> dur]
    ELSE LET pauses == pauses_of(merged, dur)
             total_silence == SumSeq(pauses)
         IN  [total   |-> total_silence,
              count   |-> Len(pauses),
              avg     |-> IF pauses # <<>>
                          THEN Quotient(total_silence, Len(pauses)) ELSE Zero,
              longest |-> IF pauses # <<>> THEN MaxOfSeq(pauses) ELSE 0]

_compute_silence(sa, sb, dur) == silence_summary(merged_intervals(sa, sb), dur)

-----------------------------------------------------------------------------
(* stats.compute_stats: percentages of the recording dur *)

\* the division done whatever the dur is
percent_unguarded(x, dur) == Quotient(100 * x, dur)

\* lines 136-138, 164, 178: x / duration_sec * 100 if duration_sec > 0, else 0.0
percent(x, dur) ==
    IF dur > 0 THEN Quotient(100 * x, dur) ELSE Zero

-----------------------------------------------------------------------------
(* The state machine: one call of compute_stats *)

\* the fields of the result before compute_stats has written them
NoSummaryYet ==
    /\ num_turns_a = 0 /\ num_turns_b = 0
    /\ turn_durations_a = <<>> /\ turn_durations_b = <<>>
    /\ duration = 0
    /\ total_overlap_sec = 0
    /\ silence_info = [total |-> 0, count |-> 0, avg |-> Zero, longest |-> 0]
    /\ percentages = [talk_a |-> Zero, talk_b |-> Zero, overlap |-> Zero,
                      silence |-> Zero]

\* no call of detect_speech in progress
VadIdle ==
    /\ vad_pc = "idle"
    /\ sample_rate = 0 /\ signal_len = 0 /\ rms = <<>> /\ threshold = <<>>
    /\ frame_ms = 30 /\ min_speech_ms = 0 /\ min_silence_ms = 0
    /\ is_speech = <<>> /\ speech = <<>>

StatsInit ==
    /\ VadIdle
    /\ pc = "start"
    \* any two interval lists (any order, overlaps allowed), MaxSegs intervals in all
    /\ \E n \in 0..MaxSegs : \E s \in [1..n -> Intervals] : \E k \in 0..n :
          /\ segments_a = SubSeq(s, 1, k)
          /\ segments_b = SubSeq(s, k + 1, n)
    /\ talk_a = 0 /\ talk_b = 0
    /\ turns = <<>>
    /\ response_a = <<>> /\ response_b = <<>>
    /\ interruptions = <<>>
    /\ made_a = 0 /\ made_b = 0
    /\ yield_a = <<>> /\ yield_b = <<>>
    /\ NoSummaryYet

\* lines 133-135
TalkTime ==
    /\ pc = "start"
    /\ talk_a' = SumSeq([i \in DOMAIN segments_a |-> duration_sec(segments_a[i])])
    /\ talk_b' = SumSeq([i \in DOMAIN segments_b |-> duration_sec(segments_b[i])])
    /\ pc' = "talk"
    /\ UNCHANGED <<segments_a, segments_b, turns, response_a, response_b,
                   interruptions, made_a, made_b, yield_a, yield_b>>
    /\ UNCHANGED <<turn_stat_vars, summary_vars>>
    /\ UNCHANGED vad_vars

\* lines 141-145
BuildTurns ==
    /\ pc = "talk"
    /\ turns' = _build_turns(segments_a, segments_b, label_a, label_b)
    /\ num_turns_a' = num_turns_of(turns', label_a)
    /\ num_turns_b' = num_turns_of(turns', label_b)
    /\ turn_durations_a' = turn_durations_of(turns', label_a, Len(turns'))
    /\ turn_durations_b' = turn_durations_of(turns', label_b, Len(turns'))
    /\ pc' = "turns"
    /\ UNCHANGED <<segments_a, segments_b, talk_a, talk_b, response_a, response_b,
                   interruptions, made_a, made_b, yield_a, yield_b>>
    /\ UNCHANGED summary_vars
    /\ UNCHANGED vad_vars

\* line 148
ComputeResponseTimes ==
    /\ pc = "turns"
    /\ LET rt == _compute_response_times(turns, label_a, label_b)
       IN  response_a' = rt.a /\ response_b' = rt.b
    /\ pc' = "response"
    /\ UNCHANGED <<segments_a, segments_b, talk_a, talk_b, turns,
                   interruptions, made_a, made_b, yield_a, yield_b>>
    /\ UNCHANGED <<turn_stat_vars, summary_vars>>
    /\ UNCHANGED vad_vars

\* lines 151-160
DetectInterruptions ==
    /\ pc = "response"
    /\ interruptions' = _detect_interruptions(segments_a, segments_b, label_a, label_b)
    /\ made_a' = made_by(interruptions', label_a)
    /\ made_b' = Len(interruptions') - made_a'
    /\ yield_b' = latencies_against(interruptions', TRUE, Len(interruptions'))
    /\ yield_a' = latencies_against(interruptions', FALSE, Len(interruptions'))
    /\ pc' = "interruptions"
    /\ UNCHANGED <<segments_a, segments_b, talk_a, talk_b, turns,
                   response_a, response_b>>
    /\ UNCHANGED <<turn_stat_vars, summary_vars>>
    /\ UNCHANGED vad_vars

\* the recording durations a caller can pass: negative, zero, up to MaxTime
Durations == (-1)..MaxTime

\* lines 136-138 and 162-182: everything that reads duration_sec (the talk-time
\* percentages, the overlap, the silence analysis) and the return.  A division
\* by zero would end the call with an exception.
Summarise ==
    /\ pc = "interruptions"
    /\ total_overlap_sec' = _compute_overlap(segments_a, segments_b)
    /\ \E merged \in {merged_intervals(segments_a, segments_b)} :
       \E d \in Durations :
          /\ duration' = d
          /\ silence_info' = silence_summary(merged, d)
          /\ percentages' = [talk_a  |-> percent(talk_a, d),
                             talk_b  |-> percent(talk_b, d),
                             overlap |-> percent(total_overlap_sec', d),
                             silence |-> percent(silence_info'.total, d)]
          /\ pc' = IF \/ silence_info'.avg.den = 0
                      \/ \E f \in DOMAIN percentages' : percentages'[f].den = 0
                   THEN "raised" ELSE "done"
    /\ UNCHANGED <<segments_a, segments_b, talk_a, talk_b, turns, response_a,
                   response_b, interruptions, made_a, made_b, yield_a, yield_b>>
    /\ UNCHANGED turn_stat_vars
    /\ UNCHANGED vad_vars

StatsNext ==
    \/ TalkTime
    \/ BuildTurns
    \/ ComputeResponseTimes
    \/ DetectInterruptions
    \/ Summarise

Spec == StatsInit /\ [][StatsNext]_vars

-----------------------------------------------------------------------------
(* The state machine: one call of detect_speech *)

\* no call of compute_stats in progress
StatsIdle ==
    /\ pc = "idle"
    /\ segments_a = <<>> /\ segments_b = <<>>
    /\ talk_a = 0 /\ talk_b = 0
    /\ turns = <<>>
    /\ response_a = <<>> /\ response_b = <<>>
    /\ interruptions = <<>>
    /\ made_a = 0 /\ made_b = 0
    /\ yield_a = <<>> /\ yield_b = <<>>
    /\ NoSummaryYet

VadInit ==
    /\ StatsIdle
    /\ vad_pc = "start"
    /\ sample_rate \in SampleRates
    /\ frame_ms \in FrameSizes
    /\ signal_len \in 0..MaxSignalLen
    \* the signal: one energy level per whole frame
    /\ rms \in [1..n_frames_of(signal_len, frame_samples_of(sample_rate, frame_ms))
                  -> EnergyLevels]
    /\ threshold \in Thresholds
    /\ min_speech_ms \in MinSpeechChoices
    /\ min_silence_ms \in MinSilenceChoices
    /\ is_speech = <<>>
    /\ speech = <<>>

\* lines 41-58: framing, the two early returns, the threshold, the
\* classification.  With a negative frame_samples and a non-empty signal
\* n_frames is negative too, and the reshape of line 50 to two negative
\* dimensions raises ValueError.
ClassifyFrames ==
    /\ vad_pc = "start"
    /\ \E frame_samples \in {frame_samples_of(sample_rate, frame_ms)} :
       \E n_frames \in {n_frames_of(signal_len, frame_samples)} :
          IF frame_samples = 0 \/ n_frames = 0
          THEN vad_pc' = "returned" /\ is_speech' = <<>>
          ELSE IF n_frames < 0
               THEN vad_pc' = "raised" /\ is_speech' = <<>>
               ELSE vad_pc' = "classified" /\ is_speech' = classify(rms, threshold)
    /\ UNCHANGED <<sample_rate, signal_len, rms, threshold, frame_ms,
                   min_speech_ms, min_silence_ms, speech>>
    /\ UNCHANGED stats_vars

\* lines 60-73: segments in frames, then in seconds
ReturnSegments ==
    /\ vad_pc = "classified"
    /\ speech' = to_seconds(
                    _frames_to_segments(is_speech,
                                        ms_to_frames(min_silence_ms, frame_ms),
                                        ms_to_frames(min_speech_ms, frame_ms)),
                    frame_ms)
    /\ vad_pc' = "returned"
    /\ UNCHANGED <<sample_rate, signal_len, rms, threshold, frame_ms,
                   min_speech_ms, min_silence_ms, is_speech>>
    /\ UNCHANGED stats_vars

VadNext == ClassifyFrames \/ ReturnSegments

SpecVad == VadInit /\ [][VadNext]_vars

-----------------------------------------------------------------------------
(* Positions of compute_stats after which a result is available *)

TurnsBuilt == pc \notin {"idle", "start", "talk"}

ResponseTimesDone == pc \notin {"idle", "start", "talk", "turns"}

InterruptionsDone == pc \notin {"idle", "start", "talk", "turns", "response"}

\* compute_stats has returned its ConversationStats record
StatsReturned == pc = "done"

\* compute_stats ended with an exception
StatsRaised == pc = "raised"

\* detect_speech has returned
Returned == vad_pc = "returned"

\* detect_speech ended with an exception
VadRaised == vad_pc = "raised"

\* the frame counts that the millisecond parameters were turned into
MinSpeechFrames == ms_to_frames(min_speech_ms, frame_ms)

MinSilenceFrames == ms_to_frames(min_silence_ms, frame_ms)

-----------------------------------------------------------------------------
(* C1 *)

\* C1: the list returned by detect_speech is sorted ascending by start, every
\* interval has end > start, and every interval starts at or after the end of
\* the previous one.
C1_SortedNonOverlapping ==
    Returned =>
        /\ \A i \in DOMAIN speech : speech[i].end_sec > speech[i].start_sec
        /\ \A i \in 1..(Len(speech) - 1) :
              /\ speech[i].start_sec < speech[i + 1].start_sec
              /\ speech[i + 1].start_sec >= speech[i].end_sec

\* two intervals are returned, one of them merged from two runs of speech frames
C1_Witness ==
    /\ Returned
    /\ Len(speech) = 2
    /\ Len(speech_runs(is_speech)) = 3

-----------------------------------------------------------------------------
(* C2 *)

\* C2: every interval returned by detect_speech lasts at least min_speech_ms
\* milliseconds, whatever frame_ms and min_speech_ms are.
C2_MinSpeechDuration ==
    Returned =>
        \A i \in DOMAIN speech : speech[i].end_sec - speech[i].start_sec >= min_speech_ms

\* the start-sorted pooled sequence of the current call
Pooled == sorted_events(segments_a, segments_b, label_a, label_b)

Other(label) == IF label = label_a THEN label_b ELSE label_a

SegmentsOf(label) == IF label = label_a THEN segments_a ELSE segments_b

\* the Speech Interval invariant of one speaker's list (spec section 3):
\* end >= start, sorted by start, pairwise non-overlapping
SpeechIntervalInvariant(segs) ==
    /\ \A i \in DOMAIN segs : segs[i].end_sec >= segs[i].start_sec
    /\ \A i \in 1..(Len(segs) - 1) : segs[i + 1].start_sec >= segs[i].end_sec

-----------------------------------------------------------------------------
(* C3 *)

\* C3: no two consecutive turns returned by _build_turns have the same speaker,
\* every turn carries one of the two labels, and empty input yields no turns.
C3_TurnsAlternate ==
    TurnsBuilt =>
        /\ \A i \in 1..(Len(turns) - 1) : turns[i].speaker # turns[i + 1].speaker
        /\ \A i \in DOMAIN turns : turns[i].speaker \in {label_a, label_b}
        /\ (segments_a = <<>> /\ segments_b = <<>>) => turns = <<>>

\* two same-speaker intervals were adjacent in the pooled order and were merged,
\* and the other speaker still has a turn
C3_Witness ==
    /\ TurnsBuilt
    /\ Len(turns) >= 2
    /\ LET ev == Pooled
       IN  \E i \in 1..(Len(ev) - 1) : ev[i][3] = ev[i + 1][3]

-----------------------------------------------------------------------------
(* C4 *)

\* first indices of the maximal same-speaker runs of the pooled sequence ev
RunStarts(ev) == {i \in DOMAIN ev : i = 1 \/ ev[i][3] # ev[i - 1][3]}

\* indices of the run of ev that starts at i
RunOf(ev, i) == {j \in i..Len(ev) : \A k \in i..j : ev[k][3] = ev[i][3]}

\* C4: each maximal run of consecutive same-speaker intervals of the start-sorted
\* pooled sequence gives exactly one turn, in run order, that starts at the start
\* of the run's first interval and ends at the maximum end over the run.
C4_RunsBecomeTurns ==
    TurnsBuilt =>
        LET ev     == Pooled
            starts == RunStarts(ev)
        IN  /\ Len(turns) = Cardinality(starts)
            /\ \A i \in starts :
                  LET k   == Cardinality({r \in starts : r <= i})
                      run == RunOf(ev, i)
                  IN  /\ turns[k].speaker = ev[i][3]
                      /\ turns[k].start = ev[i][1]
                      /\ \E j \in run : turns[k].end = ev[j][2]
                      /\ \A j \in run : turns[k].end >= ev[j][2]

\* a run of two intervals whose later interval ends earlier than the first, next
\* to a turn of the other speaker that overlaps it in time
C4_Witness ==
    /\ TurnsBuilt
    /\ LET ev == Pooled
       IN  \E i \in RunStarts(ev) :
              /\ i + 1 \in RunOf(ev, i)
              /\ ev[i + 1][2] < ev[i][2]
    /\ \E k \in 1..(Len(turns) - 1) : turns[k + 1].start < turns[k].end

-----------------------------------------------------------------------------
(* C5 *)

\* C5: the turns returned by _build_turns are ordered by start time, whatever
\* the order of the two input lists.
C5_TurnsOrderedByStart ==
    TurnsBuilt => \A i \in 1..(Len(turns) - 1) : turns[i].start <= turns[i + 1].start

\* an input list that is not in start order, and at least two turns
C5_Witness ==
    /\ TurnsBuilt
    /\ Len(turns) >= 2
    /\ \E i \in 1..(Len(segments_a) - 1) :
          segments_a[i].start_sec > segments_a[i + 1].start_sec

-----------------------------------------------------------------------------
(* C6 *)

\* the (interrupter, start_time) pairs the definition of an interruption gives
ExpectedInterrupts ==
    {<<l, s>> \in {label_a, label_b} \X (0..MaxTime) :
        \E i \in DOMAIN SegmentsOf(l), j \in DOMAIN SegmentsOf(Other(l)) :
            /\ SegmentsOf(l)[i].start_sec = s
            /\ SegmentsOf(Other(l))[j].start_sec < s
            /\ s < SegmentsOf(Other(l))[j].end_sec}

ReportedInterrupts ==
    {<<interruptions[i].interrupter, interruptions[i].start_time>> :
        i \in DOMAIN interruptions}

\* C6: an interruption (X, s) is reported exactly when X has an interval starting
\* at s and the other speaker Y has an interval with Y.start < s < Y.end, in both
\* directions; the interrupted party of a record is the other speaker; a start
\* that only coincides with starts or ends of Y's intervals reports nothing.
C6_InterruptionIffStrictlyInside ==
    InterruptionsDone =>
        LET reported == ReportedInterrupts
        IN
        /\ reported = ExpectedInterrupts
        /\ \A i \in DOMAIN interruptions :
              interruptions[i].interrupted = Other(interruptions[i].interrupter)
        /\ \A l \in {label_a, label_b} : \A i \in DOMAIN SegmentsOf(l) :
              (\A j \in DOMAIN SegmentsOf(Other(l)) :
                  LET s == SegmentsOf(l)[i].start_sec
                      y == SegmentsOf(Other(l))[j]
                  IN  s <= y.start_sec \/ s >= y.end_sec)
              => <<l, SegmentsOf(l)[i].start_sec>> \notin reported
        /\ \A l \in {label_a, label_b} :
              SpeechIntervalInvariant(SegmentsOf(Other(l))) =>
                 \A i \in DOMAIN SegmentsOf(l), j \in DOMAIN SegmentsOf(Other(l)) :
                    LET s == SegmentsOf(l)[i].start_sec
                        y == SegmentsOf(Other(l))[j]
                    IN  (s = y.start_sec \/ s = y.end_sec)
                        => <<l, s>> \notin reported

\* one interval starts strictly inside an interval of the other speaker, and
\* another starts exactly at a start or an end of one and is not reported
C6_Witness ==
    /\ InterruptionsDone
    /\ interruptions # <<>>
    /\ \E l \in {label_a, label_b} : \E i \in DOMAIN SegmentsOf(l) :
          /\ <<l, SegmentsOf(l)[i].start_sec>> \notin ReportedInterrupts
          /\ \E j \in DOMAIN SegmentsOf(Other(l)) :
                /\ SegmentsOf(Other(l))[j].end_sec > SegmentsOf(Other(l))[j].start_sec
                /\ \/ SegmentsOf(l)[i].start_sec = SegmentsOf(Other(l))[j].start_sec
                   \/ SegmentsOf(l)[i].start_sec = SegmentsOf(Other(l))[j].end_sec

-----------------------------------------------------------------------------
(* C7 *)

\* intervals of speaker l that start strictly inside some interval of the other
Interrupting(l) ==
    {i \in DOMAIN SegmentsOf(l) :
        \E j \in DOMAIN SegmentsOf(Other(l)) :
            /\ SegmentsOf(Other(l))[j].start_sec < SegmentsOf(l)[i].start_sec
            /\ SegmentsOf(l)[i].start_sec < SegmentsOf(Other(l))[j].end_sec}

\* the end of the first interval, in list order, of the other speaker that
\* interval i of speaker l starts strictly inside
FirstInterruptedEnd(l, i) ==
    LET ys == SegmentsOf(Other(l))
        s  == SegmentsOf(l)[i].start_sec
        J  == {j \in DOMAIN ys : ys[j].start_sec < s /\ s < ys[j].end_sec}
        j0 == CHOOSE j \in J : \A k \in J : j <= k
    IN  ys[j0].end_sec

RecordsOf(l) == {r \in DOMAIN interruptions : interruptions[r].interrupter = l}

\* C7: each interval of the interrupter gives at most one record (one exactly
\* when it starts strictly inside an interval of the other speaker), the record
\* refers to the first such interval in list order, and a speaker's number of
\* interruptions made never exceeds that speaker's number of intervals.
C7_OneRecordPerInterval ==
    InterruptionsDone =>
        /\ made_a <= Len(segments_a)
        /\ made_b <= Len(segments_b)
        /\ made_a = Cardinality(RecordsOf(label_a))
        /\ made_b = Cardinality(RecordsOf(label_b))
        /\ \A l \in {label_a, label_b} :
              LET records == RecordsOf(l)
                  inside  == Interrupting(l)
                  ends    == [i \in inside |-> FirstInterruptedEnd(l, i)]
              IN  /\ Cardinality(records) = Cardinality(inside)
                  /\ \A s \in 0..MaxTime, e \in 0..MaxTime :
                        Cardinality({r \in records :
                            /\ interruptions[r].start_time = s
                            /\ interruptions[r].yielding_latency = e - s})
                        = Cardinality({i \in inside :
                            /\ SegmentsOf(l)[i].start_sec = s
                            /\ ends[i] = e})

\* an interval starts strictly inside two intervals of the other speaker that
\* end at different times, and gives one record
C7_Witness ==
    /\ InterruptionsDone
    /\ \E l \in {label_a, label_b} : \E i \in DOMAIN SegmentsOf(l) :
          /\ \E j, k \in DOMAIN SegmentsOf(Other(l)) :
                /\ j < k
                /\ starts_inside(SegmentsOf(l)[i], SegmentsOf(Other(l))[j])
                /\ starts_inside(SegmentsOf(l)[i], SegmentsOf(Other(l))[k])
                /\ SegmentsOf(Other(l))[j].end_sec # SegmentsOf(Other(l))[k].end_sec
          /\ Cardinality(RecordsOf(l)) = 1

-----------------------------------------------------------------------------
(* C8 *)

\* C8: every record has start_time = the start of an interval of the interrupter,
\* yielding_latency = (end of an interval of the interrupted speaker that this
\* start lies strictly inside) - start_time, and yielding_latency >= 0.
C8_YieldingLatency ==
    InterruptionsDone =>
        \A r \in DOMAIN interruptions :
            LET rec == interruptions[r]
            IN  /\ rec.yielding_latency >= 0
                /\ \E i \in DOMAIN SegmentsOf(rec.interrupter),
                      j \in DOMAIN SegmentsOf(rec.interrupted) :
                      LET x == SegmentsOf(rec.interrupter)[i]
                          y == SegmentsOf(rec.interrupted)[j]
                      IN  /\ rec.start_time = x.start_sec
                          /\ y.start_sec < x.start_sec /\ x.start_sec < y.end_sec
                          /\ rec.yielding_latency = y.end_sec - x.start_sec

\* the scenario of test_b_interrupts_a, scaled: B starts inside A's interval and
\* A goes on for two more ticks
C8_Witness ==
    /\ InterruptionsDone
    /\ \E r \in DOMAIN interruptions :
          /\ interruptions[r].interrupter = label_b
          /\ interruptions[r].start_time = 1
          /\ interruptions[r].yielding_latency = 2

-----------------------------------------------------------------------------
(* C9 *)

\* a list as a collection: each element with its number of occurrences
Occurrences(seq, x) == Cardinality({i \in DOMAIN seq : seq[i] = x})

SameCollection(s1, s2) ==
    /\ Len(s1) = Len(s2)
    /\ \A i \in DOMAIN s1 : Occurrences(s1, s1[i]) = Occurrences(s2, s1[i])

\* the call with the two lists and the two labels swapped
SwappedInterruptions ==
    _detect_interruptions(segments_b, segments_a, label_b, label_a)

\* C9: the call with lists and labels swapped returns the same collection of
\* (interrupter, interrupted, start_time, yielding_latency) records.
C9_SymmetricInRole ==
    InterruptionsDone => SameCollection(interruptions, SwappedInterruptions)

\* both speakers interrupt each other (test_mutual_interruption)
C9_Witness ==
    /\ InterruptionsDone
    /\ made_a >= 1
    /\ made_b >= 1
    /\ SameCollection(interruptions, SwappedInterruptions)

-----------------------------------------------------------------------------
(* C10 *)

Gap(i) == turns[i].start - turns[i - 1].end

\* the transitions into a turn of speaker l that have a strictly positive gap
CleanTransitions(l) ==
    {i \in 2..Len(turns) :
        /\ turns[i].speaker = l
        /\ turns[i - 1].speaker # l
        /\ Gap(i) > 0}

ResponseTimesOf(l) == IF l = label_a THEN response_a ELSE response_b

\* C10: the response_times of a speaker are, in turn order, exactly the gaps
\* next.start - prev.end of the adjacent different-speaker pairs whose next turn
\* is that speaker's and whose gap is strictly positive; pairs with gap <= 0 add
\* no sample to either speaker.
C10_ResponseTimeIffPositiveGap ==
    ResponseTimesDone =>
        /\ \A l \in {label_a, label_b} :
              /\ Len(ResponseTimesOf(l)) = Cardinality(CleanTransitions(l))
              /\ \A i \in CleanTransitions(l) :
                    ResponseTimesOf(l)[Cardinality({j \in CleanTransitions(l) : j <= i})]
                        = Gap(i)
        /\ Len(response_a) + Len(response_b)
              = Cardinality({i \in 2..Len(turns) :
                    turns[i].speaker # turns[i - 1].speaker /\ Gap(i) > 0})

\* a clean transition that gives a sample next to a touching or overlapping
\* transition that gives none
C10_Witness ==
    /\ ResponseTimesDone
    /\ Len(response_a) + Len(response_b) = 1
    /\ \E i \in 2..Len(turns) : Gap(i) > 0
    /\ \E i \in 2..Len(turns) : Gap(i) = 0

-----------------------------------------------------------------------------
(* C11: a turn with a response-time sample is not an interruption *)

BothListsInvariant ==
    SpeechIntervalInvariant(segments_a) /\ SpeechIntervalInvariant(segments_b)

NoSamples == [a |-> <<>>, b |-> <<>>]

\* the turns for which the loop of _compute_response_times appends a sample
SampledTurns ==
    {i \in 2..Len(turns) :
        response_step(NoSamples, turns[i - 1], turns[i], label_a) # NoSamples}

\* C11: for lists that satisfy the Speech Interval invariants, whenever a
\* response-time sample is recorded for a turn starting at s, no reported
\* interruption has that turn's speaker as interrupter and s as start_time.
C11_SampleIsNotInterruption ==
    (InterruptionsDone /\ BothListsInvariant) =>
        /\ Cardinality(SampledTurns) = Len(response_a) + Len(response_b)
        /\ \A i \in SampledTurns : \A k \in DOMAIN interruptions :
              ~ /\ interruptions[k].interrupter = turns[i].speaker
                /\ interruptions[k].start_time = turns[i].start

\* one call that records a sample and also reports an interruption
C11_Witness ==
    /\ InterruptionsDone
    /\ BothListsInvariant
    /\ SampledTurns # {}
    /\ interruptions # <<>>

-----------------------------------------------------------------------------
(* C12: silence and talk time add up to at most the recording duration *)

\* every interval of both lists lies within [0, duration]
WithinRecording ==
    \A l \in {label_a, label_b} : \A i \in DOMAIN SegmentsOf(l) :
        SegmentsOf(l)[i].start_sec >= 0 /\ SegmentsOf(l)[i].end_sec <= duration

\* C12: for lists that satisfy the Speech Interval invariants and lie within
\* [0, duration], total_silence_sec + total_talk_time of both speakers -
\* total_overlap_sec <= duration_sec, with equality when the speakers do not
\* overlap.
C12_SilencePlusTalkWithinDuration ==
    (StatsReturned /\ BothListsInvariant /\ WithinRecording) =>
        /\ silence_info.total + talk_a + talk_b - total_overlap_sec <= duration
        /\ total_overlap_sec = 0 =>
              silence_info.total + talk_a + talk_b = duration

\* both speakers talk, they overlap for some time, and there is silence too
C12_Witness ==
    /\ StatsReturned
    /\ BothListsInvariant
    /\ WithinRecording
    /\ talk_a > 0 /\ talk_b > 0
    /\ total_overlap_sec > 0
    /\ silence_info.total > 0

-----------------------------------------------------------------------------
(* C13: the overlap is the pairwise intersection length *)

\* max(0, min(ends) - max(starts)) of the k-th pair, pairs numbered row by row
PairTerm(k) ==
    LET nb == Len(segments_b)
        x  == segments_a[((k - 1) \div nb) + 1]
        y  == segments_b[((k - 1) % nb) + 1]
    IN  Max(0, Min(x.end_sec, y.end_sec) - Max(x.start_sec, y.start_sec))

PairwiseIntersection ==
    SumSeq([k \in 1..(Len(segments_a) * Len(segments_b)) |-> PairTerm(k)])

\* the unit of time [t, t + 1] lies inside an interval of the list
Active(segs, t) ==
    \E i \in DOMAIN segs : segs[i].start_sec <= t /\ t + 1 <= segs[i].end_sec

\* the total time during which both speakers are active
BothActiveTime ==
    Cardinality({t \in 0..(MaxTime - 1) :
                    Active(segments_a, t) /\ Active(segments_b, t)})

\* no interval of one speaker shares more than an end point with one of the other
OnlyTouching ==
    \A i \in DOMAIN segments_a, j \in DOMAIN segments_b :
        \/ segments_a[i].end_sec <= segments_b[j].start_sec
        \/ segments_b[j].end_sec <= segments_a[i].start_sec

\* C13: total_overlap_sec is the sum over all pairs (a, b) of
\* max(0, min(a.end, b.end) - max(a.start, b.start)); for lists that are each
\* sorted and non-overlapping it is the total time both speakers are active;
\* it is 0 when the intervals only touch.
C13_OverlapIsPairwiseIntersection ==
    StatsReturned =>
        /\ total_overlap_sec = PairwiseIntersection
        /\ BothListsInvariant => total_overlap_sec = BothActiveTime
        /\ OnlyTouching => total_overlap_sec = 0

\* the speakers overlap, and an interval of one ends exactly where an interval
\* of the other starts
C13_Witness ==
    /\ StatsReturned
    /\ BothListsInvariant
    /\ total_overlap_sec > 0
    /\ \E i \in DOMAIN segments_a, j \in DOMAIN segments_b :
          /\ segments_a[i].end_sec > segments_a[i].start_sec
          /\ segments_b[j].end_sec > segments_b[j].start_sec
          /\ \/ segments_a[i].end_sec = segments_b[j].start_sec
             \/ segments_b[j].end_sec = segments_a[i].start_sec

-----------------------------------------------------------------------------
(* C14: the pauses are the maximal silent spans of the recording *)

\* neither speaker has an interval that meets the open span (u, v)
Silent(u, v) ==
    \A l \in {label_a, label_b} : \A i \in DOMAIN SegmentsOf(l) :
        SegmentsOf(l)[i].end_sec <= u \/ SegmentsOf(l)[i].start_sec >= v

\* the maximal positive-length silent spans of [0, duration]
SilentSpans ==
    {sp \in (0..MaxTime) \X (0..MaxTime) :
        /\ sp[1] < sp[2]
        /\ sp[2] <= duration
        /\ Silent(sp[1], sp[2])
        /\ sp[1] = 0 \/ ~Silent(sp[1] - 1, sp[2])
        /\ sp[2] = duration \/ ~Silent(sp[1], sp[2] + 1)}

\* the length of the span of S that starts at u, 0 if there is none
SpanLengthFrom(S, u) ==
    IF \E sp \in S : sp[1] = u
    THEN LET sp == CHOOSE x \in S : x[1] = u IN sp[2] - sp[1]
    ELSE 0

\* two different intervals, of the same or of different speakers, that overlap
\* or touch, each of positive length
SomeIntervalsMeet ==
    \E l, m \in {label_a, label_b} :
    \E i \in DOMAIN SegmentsOf(l), j \in DOMAIN SegmentsOf(m) :
        /\ <<l, i>> # <<m, j>>
        /\ SegmentsOf(l)[i].end_sec > SegmentsOf(l)[i].start_sec
        /\ SegmentsOf(m)[j].end_sec > SegmentsOf(m)[j].start_sec
        /\ SegmentsOf(l)[i].start_sec <= SegmentsOf(m)[j].start_sec
        /\ SegmentsOf(m)[j].start_sec <= SegmentsOf(l)[i].end_sec

\* C14: for lists lying within [0, duration_sec], the pauses reported by
\* _compute_silence are exactly the maximal positive-length spans of
\* [0, duration_sec] in which neither speaker has an interval: count is their
\* number, total the sum of their lengths, longest their maximum, and avg is
\* total / count (0 when there is none); intervals that overlap or touch are
\* merged and leave no pause between them.
C14_PausesAreMaximalSilentSpans ==
    (StatsReturned /\ duration >= 0 /\ WithinRecording) =>
        LET S       == SilentSpans
            lengths == [k \in 1..(MaxTime + 1) |-> SpanLengthFrom(S, k - 1)]
        IN  /\ silence_info = _compute_silence(segments_a, segments_b, duration)
            /\ silence_info.count = Cardinality(S)
            /\ silence_info.total = SumSeq(lengths)
            /\ silence_info.longest = MaxOfSeq(lengths)
            /\ IF S = {}
               THEN silence_info.avg = Zero
               ELSE /\ silence_info.avg.den # 0
                    /\ silence_info.avg.num * silence_info.count
                          = silence_info.total * silence_info.avg.den

\* two pauses are reported around intervals that overlap or touch
C14_Witness ==
    /\ StatsReturned
    /\ duration >= 0
    /\ WithinRecording
    /\ SomeIntervalsMeet
    /\ silence_info.count = 2

-----------------------------------------------------------------------------
(* C15: a recording without speech *)

\* the call has ended, by a return or by an exception
StatsEnded == StatsReturned \/ StatsRaised

NoSpeech == segments_a = <<>> /\ segments_b = <<>>

\* C15: with both interval lists empty, compute_stats raises no error and
\* reports the whole recording as silence: total_silence_sec = duration_sec,
\* num_pauses = 1 if duration_sec > 0 and 0 otherwise, longest_pause =
\* duration_sec, both total_talk_time = 0, no turns and no interruptions; for
\* duration_sec = 0 every percentage is 0.
C15_NoSpeechIsAllSilence ==
    (StatsEnded /\ NoSpeech) =>
        /\ StatsReturned
        /\ silence_info.total = duration
        /\ silence_info.count = (IF duration > 0 THEN 1 ELSE 0)
        /\ silence_info.longest = duration
        /\ talk_a = 0 /\ talk_b = 0
        /\ turns = <<>> /\ num_turns_a = 0 /\ num_turns_b = 0
        /\ interruptions = <<>> /\ made_a = 0 /\ made_b = 0
        /\ duration = 0 =>
              \A f \in DOMAIN percentages : percentages[f] = Zero

\* the call with no speech and duration 0 has returned
C15_Witness ==
    /\ StatsReturned
    /\ NoSpeech
    /\ duration = 0
    /\ silence_info.count = 0

-----------------------------------------------------------------------------
(* stats.SpeakerStats: the distributional statistics, as exact quotients.
   Of an empty list numpy's mean, median and std are nan and its min and max
   raise ValueError: both are the undefined quotient 0 / 0 here. *)

Undefined == Quotient(0, 0)

np_mean(xs) == Quotient(SumSeq(xs), Len(xs))

np_median(xs) ==
    IF xs = <<>> THEN Undefined
    ELSE LET s == StableSort(xs, xs)
             h == Len(xs) \div 2
         IN  IF Len(xs) % 2 = 1 THEN Quotient(s[h + 1], 1)
             ELSE Quotient(s[h] + s[h + 1], 2)

\* the standard deviation is the square root of the quotient num / den
np_std(xs) ==
    LET n == Len(xs)
        squares == SumSeq([i \in DOMAIN xs |-> xs[i] * xs[i]])
    IN  [num |-> n * squares - SumSeq(xs) * SumSeq(xs), den |-> n * n, root |-> 2]

np_min(xs) == IF xs = <<>> THEN Undefined ELSE Quotient(MinOfSeq(xs), 1)

np_max(xs) == IF xs = <<>> THEN Undefined ELSE Quotient(MaxOfSeq(xs), 1)

avg_turn_duration(turn_durations) ==
    IF turn_durations # <<>> THEN np_mean(turn_durations) ELSE Zero

median_turn_duration(turn_durations) ==
    IF turn_durations # <<>> THEN np_median(turn_durations) ELSE Zero

min_turn_duration(turn_durations) ==
    IF turn_durations # <<>> THEN np_min(turn_durations) ELSE Zero

max_turn_duration(turn_durations) ==
    IF turn_durations # <<>> THEN np_max(turn_durations) ELSE Zero

\* the property without its test for an empty list
avg_response_time_unguarded(response_times) == np_mean(response_times)

avg_response_time(response_times) ==
    IF response_times # <<>> THEN np_mean(response_times) ELSE Zero

median_response_time(response_times) ==
    IF response_times # <<>> THEN np_median(response_times) ELSE Zero

std_response_time(response_times) ==
    IF response_times # <<>> THEN np_std(response_times) ELSE Zero

min_response_time(response_times) ==
    IF response_times # <<>> THEN np_min(response_times) ELSE Zero

max_response_time(response_times) ==
    IF response_times # <<>> THEN np_max(response_times) ELSE Zero

avg_yielding_latency(yielding_latencies) ==
    IF yielding_latencies # <<>> THEN np_mean(yielding_latencies) ELSE Zero

median_yielding_latency(yielding_latencies) ==
    IF yielding_latencies # <<>> THEN np_median(yielding_latencies) ELSE Zero

std_yielding_latency(yielding_latencies) ==
    IF yielding_latencies # <<>> THEN np_std(yielding_latencies) ELSE Zero

min_yielding_latency(yielding_latencies) ==
    IF yielding_latencies # <<>> THEN np_min(yielding_latencies) ELSE Zero

max_yielding_latency(yielding_latencies) ==
    IF yielding_latencies # <<>> THEN np_max(yielding_latencies) ELSE Zero

-----------------------------------------------------------------------------
(* C16: statistics over an empty sample list *)

\* the sample lists of a speaker in the result
Samples(l) ==
    IF l = label_a
    THEN [turn_durations |-> turn_durations_a, response_times |-> response_a,
          yielding_latencies |-> yield_a]
    ELSE [turn_durations |-> turn_durations_b, response_times |-> response_b,
          yielding_latencies |-> yield_b]

\* C16: in any result of compute_stats, every distributional statistic of a
\* speaker (mean, median, min, max of the turn durations; mean, median, std,
\* min, max of the response times and of the yielding latencies) is 0, and is
\* not undefined, when its sample list is empty.
C16_EmptySamplesGiveZero ==
    StatsReturned =>
        \A l \in {label_a, label_b} :
            LET st == Samples(l)
            IN  /\ st.turn_durations = <<>> =>
                      /\ avg_turn_duration(st.turn_durations) = Zero
                      /\ median_turn_duration(st.turn_durations) = Zero
                      /\ min_turn_duration(st.turn_durations) = Zero
                      /\ max_turn_duration(st.turn_durations) = Zero
                /\ st.response_times = <<>> =>
                      /\ avg_response_time(st.response_times) = Zero
                      /\ median_response_time(st.response_times) = Zero
                      /\ std_response_time(st.response_times) = Zero
                      /\ min_response_time(st.response_times) = Zero
                      /\ max_response_time(st.response_times) = Zero
                /\ st.yielding_latencies = <<>> =>
                      /\ avg_yielding_latency(st.yielding_latencies) = Zero
                      /\ median_yielding_latency(st.yielding_latencies) = Zero
                      /\ std_yielding_latency(st.yielding_latencies) = Zero
                      /\ min_yielding_latency(st.yielding_latencies) = Zero
                      /\ max_yielding_latency(st.yielding_latencies) = Zero

\* a speaker who has turns but no response-time sample and no yielding latency,
\* while the other speaker has a response-time sample
C16_Witness ==
    /\ StatsReturned
    /\ \E l \in {label_a, label_b} :
          /\ Samples(l).turn_durations # <<>>
          /\ Samples(l).response_times = <<>>
          /\ Samples(l).yielding_latencies = <<>>
          /\ avg_turn_duration(Samples(l).turn_durations).num > 0
          /\ Samples(Other(l)).response_times # <<>>

-----------------------------------------------------------------------------
(* C17: degenerate signals *)

\* detect_speech has ended, by a return or by an exception
VadEnded == Returned \/ VadRaised

FrameSamples == frame_samples_of(sample_rate, frame_ms)

EmptySignal == signal_len = 0

\* the frame size rounds to zero samples, or the signal is shorter than a frame
ShorterThanOneFrame == FrameSamples = 0 \/ signal_len < FrameSamples

\* there are frames and every frame has zero energy
AllSilence == rms # <<>> /\ \A i \in DOMAIN rms : rms[i] = 0

\* C17: for a non-negative sample rate, detect_speech returns an empty list and
\* raises no error for an empty signal, for a signal shorter than one frame (or
\* a frame size of zero samples) and for an all-silence signal, with an explicit
\* or an automatic threshold.
C17_DegenerateSignalsGiveNoSpeech ==
    (VadEnded /\ sample_rate >= 0
        /\ (EmptySignal \/ ShorterThanOneFrame \/ AllSilence)) =>
        Returned /\ speech = <<>>

\* an all-silence signal of several frames, classified with the automatic
\* threshold, has been answered
C17_Witness ==
    /\ Returned
    /\ AllSilence
    /\ Len(rms) >= 2
    /\ threshold = <<>>
    /\ speech = <<>>

-----------------------------------------------------------------------------
(* C18: an all-speech signal *)

\* there are frames and every frame carries speech energy: energy above zero,
\* and above the threshold when the caller gives one
AllSpeech ==
    /\ sample_rate > 0
    /\ rms # <<>>
    /\ \A i \in DOMAIN rms :
          rms[i] > 0 /\ (threshold # <<>> => rms[i] > threshold[1])

\* C18: for an all-speech signal detect_speech returns exactly one interval,
\* from 0 to the length of the signal in seconds (signal_len / sample_rate;
\* the interval is held in milliseconds).
C18_AllSpeechOneFullInterval ==
    (VadEnded /\ AllSpeech) =>
        /\ Returned
        /\ Len(speech) = 1
        /\ speech[1].start_sec = 0
        /\ speech[1].end_sec * sample_rate = 1000 * signal_len

-----------------------------------------------------------------------------
(* C19: a negative duration or a negative sample rate *)

\* C19: a call of compute_stats with a negative duration_sec, and a call of
\* detect_speech with a negative sample_rate, ends with an error and not with
\* a result.
C19_ContractViolationRaises ==
    /\ (StatsEnded /\ duration < 0) => StatsRaised
    /\ (VadEnded /\ sample_rate < 0) => VadRaised

-----------------------------------------------------------------------------
(* C20: transitions without a response-time sample and the interruptions *)

\* the transitions between adjacent turns of different speakers
Transitions == {i \in 2..Len(turns) : turns[i].speaker # turns[i - 1].speaker}

\* an interruption is reported at transition i: the speaker of the later turn
\* interrupts the speaker of the earlier turn at the later turn's start
ReportedAt(i) ==
    \E k \in DOMAIN interruptions :
        /\ interruptions[k].interrupter = turns[i].speaker
        /\ interruptions[k].interrupted = turns[i - 1].speaker
        /\ interruptions[k].start_time = turns[i].start

\* an interval of the earlier turn's speaker starts at the very start of turn i
SimultaneousStart(i) ==
    \E j \in DOMAIN SegmentsOf(turns[i - 1].speaker) :
        SegmentsOf(turns[i - 1].speaker)[j].start_sec = turns[i].start

\* C20 as stated: for lists that satisfy the Speech Interval invariants, every
\* transition between different speakers with next.start - prev.end <= 0 has
\* an interruption reported at it (interrupter = speaker of the later turn,
\* start_time = that turn's start).
C20_NonPositiveGapIsInterruption ==
    (InterruptionsDone /\ BothListsInvariant) =>
        \A i \in Transitions : Gap(i) <= 0 => ReportedAt(i)

\* C20 amended: for lists that satisfy the Speech Interval invariants, a
\* transition between different speakers has an interruption reported at it
\* exactly when next.start - prev.end < 0 and no interval of the earlier
\* turn's speaker starts at next.start; a transition with gap = 0 (the turns
\* touch) or with a simultaneous start gets neither a response-time sample nor
\* an interruption.
C20_NegativeGapIsInterruption ==
    (InterruptionsDone /\ BothListsInvariant) =>
        \A i \in Transitions :
            /\ (Gap(i) < 0 /\ ~SimultaneousStart(i)) => ReportedAt(i)
            /\ (Gap(i) = 0 \/ (Gap(i) < 0 /\ SimultaneousStart(i))) =>
                  ~ReportedAt(i) /\ i \notin SampledTurns

\* one transition with a negative gap that is reported as an interruption of
\* A by B or of B by A, and one touching transition that is not
C20_Witness ==
    /\ InterruptionsDone
    /\ BothListsInvariant
    /\ \E i \in Transitions :
          Gap(i) < 0 /\ ~SimultaneousStart(i) /\ ReportedAt(i)
    /\ \E i \in Transitions :
          /\ Gap(i) = 0
          /\ turns[i].end > turns[i].start
          /\ turns[i - 1].end > turns[i - 1].start
          /\ ~ReportedAt(i)

-----------------------------------------------------------------------------
(* C21: runs are merged first and filtered afterwards *)

\* the speech frames before frame i, and after frame j (frames numbered from 1)
SpeechBefore(i) == {k \in 1..(i - 1) : is_speech[k]}

SpeechAfter(j) == {k \in (j + 1)..Len(is_speech) : is_speech[k]}

\* the number of silent frames between frame i and the last speech frame before it
SilenceBefore(i) ==
    i - 1 - (CHOOSE k \in SpeechBefore(i) : \A m \in SpeechBefore(i) : m <= k)

\* the number of silent frames between frame j and the first speech frame after it
SilenceAfter(j) ==
    (CHOOSE k \in SpeechAfter(j) : \A m \in SpeechAfter(j) : k <= m) - j - 1

\* a speech frame that is not joined to earlier speech: there is none, or at
\* least min_silence_frames silent frames lie in between
GroupStarts ==
    {i \in DOMAIN is_speech :
        /\ is_speech[i]
        /\ SpeechBefore(i) = {} \/ (i - 1 \notin SpeechBefore(i)
                                     /\ SilenceBefore(i) >= MinSilenceFrames)}

\* a speech frame that is not joined to later speech
GroupEnds ==
    {j \in DOMAIN is_speech :
        /\ is_speech[j]
        /\ SpeechAfter(j) = {} \/ (j + 1 \notin SpeechAfter(j)
                                    /\ SilenceAfter(j) >= MinSilenceFrames)}

\* the merged runs as <<first frame, last frame>>
MergedGroups ==
    {g \in GroupStarts \X GroupEnds :
        /\ g[1] <= g[2]
        /\ \A j \in GroupEnds : j >= g[1] => j >= g[2]}

\* the frames of a group, first to last, the silent ones in between included
GroupLength(g) == g[2] - g[1] + 1

\* the maximal runs of speech frames inside a group
RunsWithin(g) ==
    {i \in g[1]..g[2] : is_speech[i] /\ (i = g[1] \/ ~is_speech[i - 1])}

\* the number of speech frames in the run that starts at frame i
RunLength(i) ==
    Cardinality({j \in i..Len(is_speech) : \A k \in i..j : is_speech[k]})

\* C21: the intervals returned are exactly the merged groups of speech runs
\* (runs joined while the silence between neighbours is shorter than
\* min_silence_frames) whose whole span is at least min_speech_frames long:
\* merging comes first, the length test is applied to the merged span, so
\* short runs that merge into a long enough span survive and an isolated
\* short run is dropped.
C21_MergeBeforeFilter ==
    Returned =>
        LET groups == MergedGroups
            kept   == {g \in groups : GroupLength(g) >= MinSpeechFrames}
        IN  /\ Len(speech) = Cardinality(kept)
            /\ \A g \in kept : \E i \in DOMAIN speech :
                  /\ speech[i].start_sec = (g[1] - 1) * frame_ms
                  /\ speech[i].end_sec = g[2] * frame_ms

\* two runs, each shorter than min_speech_frames, returned as one interval,
\* while an isolated short run of the same signal is dropped
C21_Witness ==
    /\ Returned
    /\ Len(speech) = 1
    /\ \E g \in MergedGroups :
          /\ Cardinality(RunsWithin(g)) = 2
          /\ GroupLength(g) >= MinSpeechFrames
          /\ \A i \in RunsWithin(g) : RunLength(i) < MinSpeechFrames
          /\ speech[1].start_sec = (g[1] - 1) * frame_ms
          /\ speech[1].end_sec = g[2] * frame_ms
    /\ \E g \in MergedGroups :
          Cardinality(RunsWithin(g)) = 1 /\ GroupLength(g) < MinSpeechFrames

-----------------------------------------------------------------------------
(* C22: the silence between returned intervals *)

\* C22: any two consecutive intervals returned by detect_speech are separated
\* by at least min_silence_ms milliseconds, whatever frame_ms and
\* min_silence_ms are.
C22_MinSilenceBetweenIntervals ==
    Returned =>
        \A i \in 1..(Len(speech) - 1) :
            speech[i + 1].start_sec - speech[i].end_sec >= min_silence_ms

-----------------------------------------------------------------------------
(* C23: the returned intervals and the length of the recording *)

\* C23: every interval returned by detect_speech lies inside the recording:
\* 0 <= start_sec and end_sec <= len(signal) / sample_rate, for every
\* sample_rate and frame_ms (times are held in milliseconds, so the bound is
\* end * sample_rate <= 1000 * len(signal)).
C23_IntervalsInsideRecording ==
    Returned =>
        \A i \in DOMAIN speech :
            /\ speech[i].start_sec >= 0
            /\ speech[i].end_sec * sample_rate <= 1000 * signal_len

-----------------------------------------------------------------------------
(* C24: response times and silence *)

\* C24: for lists that satisfy the Speech Interval invariants (and lie within
\* the recording), whenever a response time is recorded for adjacent turns
\* (prev, next), neither speaker has an interval that meets the open span
\* (prev.end, next.start), and the sample is no longer than longest_pause.
C24_SamplesAreSilentHandoffs ==
    (StatsReturned /\ BothListsInvariant /\ WithinRecording) =>
        \A i \in SampledTurns :
            /\ Silent(turns[i - 1].end, turns[i].start)
            /\ Gap(i) <= silence_info.longest

=============================================================================
